---------------------------- MODULE Spec2Model ----------------------------
(***************************************************************************)
(* Model of the paginated crawler: crawl_venues (src/crawler_logic.py),    *)
(* the start-button handler that calls it (src/app.py), the provider       *)
(* manager (src/utils/llm_provider_manager.py), the venue helpers          *)
(* (src/utils/data_utils.py) and the rule-based selector conversion        *)
(* (src/utils/selector_utils.py).                                          *)
(*                                                                         *)
(* Python strings that the code inspects character by character are        *)
(* sequences of one-character strings.  A JSON value is a tagged record    *)
(* [t, v]: t is its Python type after json.loads and v its text.  A dict   *)
(* is the sequence of its [k, v] items in insertion order, which is the    *)
(* order str(dict) prints them in.                                         *)
(***************************************************************************)
EXTENDS Integers, Sequences, FiniteSets, TLC

VARIABLES
    via,               \* who calls crawl_venues: "app" (start button) or "direct"
    llm_provider,      \* argument llm_provider
    llm_model,         \* argument llm_model
    api_key,           \* argument api_key (characters)
    required_keys_str, \* argument required_keys_str (characters)
    use_page_limit,    \* argument use_page_limit
    max_pages,         \* argument max_pages: [none, n]
    providers,         \* LLMProviderManager.providers: provider key -> model keys
    pc,                \* position of the run
    keys_list,         \* local keys_list
    page_number,       \* local page_number
    all_venues,        \* local all_venues
    seen_ids,          \* local seen_ids
    page_venues,       \* local page_venues
    remaining,         \* elements of extracted_data the for loop has yet to visit
    returned,          \* the value crawl_venues returned
    progress,          \* the lines handed to progress_callback, in order
    fetches,           \* the crawler.arun calls issued, in order
    stop,              \* which exit of the loop (or of the prologue) was taken
    last_payload,      \* shape of the extraction result handled last
    cps_result,        \* outcome of the last create_provider_string call
    vak_result,        \* outcome of the last validate_api_key call
    dup_log,           \* the is_duplicate_venue calls made: [venue, out], in order
    raw_selector,      \* argument raw_selector of generate_flexible_selector
    gfs_result         \* outcome of the last generate_flexible_selector call

vars == <<via, llm_provider, llm_model, api_key, required_keys_str,
          use_page_limit, max_pages, providers, pc, keys_list, page_number,
          all_venues, seen_ids, page_venues, remaining, returned, progress,
          fetches, stop, last_payload, cps_result, vak_result, dup_log,
          raw_selector, gfs_result>>

\* what the helper functions outside crawl_venues work on
lib == <<dup_log, raw_selector, gfs_result>>

args == <<via, llm_provider, llm_model, api_key, required_keys_str,
          use_page_limit, max_pages>>

-----------------------------------------------------------------------------
(* Bounds of the model *)

\* most candidates in one extraction payload
MaxItems == 2
\* largest max_pages argument tried
MaxPagesArg == 2
\* longest credential string tried by the validate_api_key specification
MaxKeyLen == 11

-----------------------------------------------------------------------------
(* Characters and strings *)

RECURSIVE Repeat(_, _)
Repeat(c, n) == IF n = 0 THEN <<>> ELSE <<c>> \o Repeat(c, n - 1)

\* str.isspace() for one character, as str.strip() uses it
IsSpace(c) == c \in {" ", "\t", "\n", "\r"}

RECURSIVE LStrip(_)
LStrip(s) == IF s # <<>> /\ IsSpace(Head(s)) THEN LStrip(Tail(s)) ELSE s

RECURSIVE RStrip(_)
RStrip(s) ==
    IF s # <<>> /\ IsSpace(s[Len(s)]) THEN RStrip(SubSeq(s, 1, Len(s) - 1)) ELSE s

\* str.strip()
Strip(s) == RStrip(LStrip(s))

\* str.split(c) for a one-character separator: always at least one part
RECURSIVE Split(_, _)
Split(s, c) ==
    IF \E i \in 1..Len(s) : s[i] = c
    THEN LET i == CHOOSE j \in 1..Len(s) : s[j] = c /\ \A h \in 1..(j - 1) : s[h] # c
         IN  <<SubSeq(s, 1, i - 1)>> \o Split(SubSeq(s, i + 1, Len(s)), c)
    ELSE <<s>>

RECURSIVE Concat(_)
Concat(ss) == IF ss = <<>> THEN <<>> ELSE Head(ss) \o Concat(Tail(ss))

RECURSIVE Join(_, _)
Join(ss, sep) ==
    IF ss = <<>> THEN <<>>
    ELSE IF Len(ss) = 1 THEN ss[1]
    ELSE ss[1] \o sep \o Join(Tail(ss), sep)

Range(s) == {s[i] : i \in DOMAIN s}

-----------------------------------------------------------------------------
(* JSON values and dicts *)

StrVal(s) == [t |-> "str", v |-> s]
NumVal(s) == [t |-> "num", v |-> s]
NoneVal == [t |-> "null", v |-> <<>>]
BoolVal(b) == [t |-> "bool", v |-> IF b THEN <<"T", "r", "u", "e">>
                                        ELSE <<"F", "a", "l", "s", "e">>]

\* bool(value)
Truthy(val) ==
    CASE val.t = "str" -> val.v # <<>>
      [] val.t = "num" -> val.v # <<"0">>
      [] val.t = "null" -> FALSE
      [] val.t = "bool" -> val.v = BoolVal(TRUE).v

\* repr(value)
Repr(val) ==
    CASE val.t = "str" -> <<"'">> \o val.v \o <<"'">>
      [] val.t = "num" -> val.v
      [] val.t = "null" -> <<"N", "o", "n", "e">>
      [] val.t = "bool" -> val.v

\* key in d
HasKey(d, k) == \E i \in DOMAIN d : d[i].k = k

\* d[k] for a key that is present
Item(d, k) == d[CHOOSE i \in DOMAIN d : d[i].k = k].v

\* d.get(k)
Get(d, k) == IF HasKey(d, k) THEN Item(d, k) ELSE NoneVal

\* d.pop(k, None), for its effect on d
Pop(d, k) == SelectSeq(d, LAMBDA e : e.k # k)

\* str(d): "{'k': v, ...}" in insertion order
StrOfDict(d) ==
    <<"{">>
    \o Join([i \in DOMAIN d |-> Repr(StrVal(d[i].k)) \o <<":", " ">> \o Repr(d[i].v)],
            <<",", " ">>)
    \o <<"}">>

-----------------------------------------------------------------------------
(* config.LLM_PROVIDERS and LLMProviderManager *)

\* config.LLM_PROVIDERS: provider key -> the keys of its "models" dict
LLM_PROVIDERS ==
    [p \in {"openai", "gemini", "deepseek", "anthropic", "mistral", "xai"} |->
        CASE p = "openai" -> {"gpt-4o", "gpt-4o-mini", "gpt-4-turbo", "gpt-3.5-turbo"}
          [] p = "gemini" -> {"gemini-2.5-pro", "gemini-2.5-flash", "gemini-1.5-pro",
                              "gemini-1.5-flash"}
          [] p = "deepseek" -> {"deepseek-v3", "deepseek-r1", "deepseek-v2.5",
                                "deepseek-coder-v2"}
          [] p = "anthropic" -> {"claude-3.5-sonnet", "claude-3.5-haiku", "claude-3-opus",
                                 "claude-3-sonnet"}
          [] p = "mistral" -> {"mistral-large-2", "mistral-medium-3", "mistral-small-3",
                               "codestral"}
          [] p = "xai" -> {"grok-3", "grok-3-reasoning", "grok-beta"}]

\* a call that returned value
Returned(value) == [raised |-> FALSE, value |-> value]
\* a call that raised ValueError(message)
Raised(message) == [raised |-> TRUE, value |-> message]
\* no call made yet
NoCall == [raised |-> FALSE, value |-> ""]

\* mutant: the model lookup of line 36 is missing
create_provider_string_no_model_check(catalog, provider_key, model_key) ==
    IF provider_key \notin DOMAIN catalog
    THEN Raised("Unknown provider: " \o provider_key)
    ELSE Returned(provider_key \o "/" \o model_key)

\* mutant: the xai branch renders another prefix
create_provider_string_wrong_prefix(catalog, provider_key, model_key) ==
    IF provider_key \notin DOMAIN catalog
    THEN Raised("Unknown provider: " \o provider_key)
    ELSE IF model_key \notin catalog[provider_key]
    THEN Raised("Unknown model " \o model_key \o " for provider " \o provider_key)
    ELSE IF provider_key = "xai" THEN Returned("grok/" \o model_key)
    ELSE Returned(provider_key \o "/" \o model_key)

\* LLMProviderManager.create_provider_string, with self.providers = catalog
create_provider_string(catalog, provider_key, model_key) ==
    IF provider_key \notin DOMAIN catalog
    THEN Raised("Unknown provider: " \o provider_key)
    ELSE IF model_key \notin catalog[provider_key]
    THEN Raised("Unknown model " \o model_key \o " for provider " \o provider_key)
    ELSE IF provider_key = "openai" THEN Returned("openai/" \o model_key)
    ELSE IF provider_key = "gemini" THEN Returned("gemini/" \o model_key)
    ELSE IF provider_key = "deepseek" THEN Returned("deepseek/" \o model_key)
    ELSE IF provider_key = "anthropic" THEN Returned("anthropic/" \o model_key)
    ELSE IF provider_key = "mistral" THEN Returned("mistral/" \o model_key)
    ELSE IF provider_key = "xai" THEN Returned("xai/" \o model_key)
    ELSE Returned(provider_key \o "/" \o model_key)

\* the least length validate_api_key accepts
MinKeyLen == 10

\* mutant: the comparison of line 58 is <= instead of <
validate_api_key_off_by_one(key) ==
    IF key = <<>> \/ Len(Strip(key)) <= MinKeyLen THEN FALSE ELSE TRUE

\* mutant: the length test of line 58 is missing
validate_api_key_no_length(key) ==
    IF key = <<>> THEN FALSE ELSE TRUE

\* LLMProviderManager.validate_api_key
validate_api_key(key) ==
    IF key = <<>> \/ Len(Strip(key)) < MinKeyLen THEN FALSE ELSE TRUE


-----------------------------------------------------------------------------
(* Field names and the candidates the Extraction Service may return *)

k_title == <<"t", "i", "t", "l", "e">>
k_price == <<"p", "r", "i", "c", "e">>
k_listing_id == <<"l", "i", "s", "t", "i", "n", "g", "_", "i", "d">>
k_error == <<"e", "r", "r", "o", "r">>

KV(k, v) == [k |-> k, v |-> v]

\* an element of the parsed array: a dict, or a value that is no dict
DictElem(d) == [isdict |-> TRUE, d |-> d, val |-> NoneVal]
ValueElem(val) == [isdict |-> FALSE, d |-> <<>>, val |-> val]

Elements ==
    { DictElem(<<KV(k_listing_id, StrVal(<<"A">>)), KV(k_title, StrVal(<<"x">>)),
                 KV(k_price, StrVal(<<"1">>))>>),
      DictElem(<<KV(k_title, StrVal(<<"x">>)), KV(k_listing_id, StrVal(<<"A">>)),
                 KV(k_price, StrVal(<<"1">>))>>),
      DictElem(<<KV(k_title, StrVal(<<"x">>)), KV(k_price, StrVal(<<"1">>)),
                 KV(k_error, BoolVal(FALSE))>>),
      DictElem(<<KV(k_title, StrVal(<<"x">>)), KV(k_price, StrVal(<<"1">>))>>),
      DictElem(<<KV(k_title, StrVal(<<"x">>)), KV(k_price, StrVal(<<"1">>)),
                 KV(k_error, BoolVal(TRUE))>>),
      DictElem(<<KV(k_title, StrVal(<<"x">>)), KV(k_price, NoneVal)>>),
      DictElem(<<KV(k_price, StrVal(<<"1">>))>>),
      DictElem(<<KV(k_title, StrVal(<<>>)), KV(k_price, StrVal(<<"1">>))>>),
      ValueElem(NumVal(<<"1">>)) }

\* what the extraction fetch returns: success flag and extracted_content, the
\* latter by what json.loads makes of it: kind "empty" is no content at all,
\* "array" a list of n elements, "object" a dict of n keys, "scalar" the value val
Result(success, kind, n, val) ==
    [success |-> success, kind |-> kind, n |-> n, val |-> val]

Results ==
    {Result(TRUE, "array", n, NoneVal) : n \in 0..MaxItems}
    \cup {Result(FALSE, "empty", 0, NoneVal), Result(TRUE, "empty", 0, NoneVal),
          Result(FALSE, "array", 1, NoneVal),
          Result(TRUE, "notjson", 0, NoneVal)}
    \cup {Result(TRUE, "object", n, NoneVal) : n \in 0..1}
    \cup {Result(TRUE, "scalar", 0, val) :
              val \in {NoneVal, NumVal(<<"0">>), NumVal(<<"7">>), StrVal(<<"x">>)}}

-----------------------------------------------------------------------------
(* crawl_venues: the pieces of the loop body *)

\* mutant: the limit is compared whenever the box is ticked
PageLimitReachedWhenTicked(use, maxp, page) == use /\ page > maxp.n

\* mutant: the limit is compared against one page more
PageLimitReachedLate(use, maxp, page) ==
    use /\ ~maxp.none /\ maxp.n # 0 /\ page > maxp.n + 1

\* line 121: use_page_limit and max_pages and page_number > max_pages
PageLimitReached(use, maxp, page) ==
    use /\ ~maxp.none /\ maxp.n # 0 /\ page > maxp.n

\* line 112: use_page_limit and max_pages
PageLimitSet(use, maxp) == use /\ ~maxp.none /\ maxp.n # 0

\* line 83: the comma-separated string as a list of stripped, non-empty keys
ParseKeys(str) ==
    LET parts == Split(str, ",")
    IN  SelectSeq([i \in DOMAIN parts |-> Strip(parts[i])], LAMBDA k : k # <<>>)

\* line 155: not (result.success and result.extracted_content)
ExtractionFailed(result) == ~(result.success /\ result.kind # "empty")

\* lines 160-162: json.loads raises JSONDecodeError
ParseFails(result) == result.kind = "notjson"

\* mutant: the emptiness test of line 166 is missing
DataFalsyNever(result) == FALSE

\* line 166: not extracted_data
DataFalsy(result) ==
    CASE result.kind = "array" -> result.n = 0
      [] result.kind = "object" -> result.n = 0
      [] result.kind = "scalar" -> ~Truthy(result.val)
      [] OTHER -> FALSE

\* lines 172-174 on data that is no list: a number or a boolean cannot be
\* iterated (TypeError), a dict yields its keys and a string its characters,
\* none of which has a .get (AttributeError)
NotAList(result) == result.kind \in {"object", "scalar"}

\* mutant: the error field stays whatever it holds
StripErrorNever(venue) == venue

\* lines 174-175: an error field that is False is removed
StripError(venue) ==
    IF Get(venue, k_error) = BoolVal(FALSE) THEN Pop(venue, k_error) ELSE venue

\* mutant: only the presence of the keys is tested (as is_complete_venue does)
IsCompleteKeysOnly(venue, keys) ==
    \A i \in DOMAIN keys : HasKey(venue, keys[i])

\* line 178: all(key in venue and venue[key] for key in keys_list)
IsComplete(venue, keys) ==
    \A i \in DOMAIN keys : HasKey(venue, keys[i]) /\ Truthy(Item(venue, keys[i]))

\* mutant: the identity is the title alone
VenueIdByTitle(venue) == Get(venue, k_title).v

\* line 180: venue_id = str(venue)
VenueId(venue) == StrOfDict(venue)

\* a line handed to progress_callback: its kind, its text argument, its numbers
Line(k, text, a, b) == [k |-> k, text |-> text, a |-> a, b |-> b]

\* a call of crawler.arun: "render" (no extraction) or "extract", and the page
Fetch(kind, page) == [kind |-> kind, page |-> page]

\* the shape of an extraction result; an array counts as "records" until an
\* element that is no dict is met
PayloadShape(result) ==
    IF ExtractionFailed(result) THEN "failed"
    ELSE CASE result.kind = "notjson" -> "notjson"
           [] result.kind = "object" -> "object"
           [] result.kind = "scalar" -> "scalar"
           [] result.kind = "array" -> IF result.n = 0 THEN "empty_array" ELSE "records"

-----------------------------------------------------------------------------
(* data_utils.is_duplicate_venue: the identity it derives for a venue *)

k_image_url == <<"i", "m", "a", "g", "e", "_", "u", "r", "l">>
k_brand == <<"b", "r", "a", "n", "d">>
k_model == <<"m", "o", "d", "e", "l">>
k_year == <<"y", "e", "a", "r">>
k_km == <<"k", "m">>

\* line 33: the blank-image URL that is no identity
PlaceholderImage ==
    <<"o", "t", "o", ".", "c", "o", "m", "/", "2", "0", "2", "1", "/", "i", "m", "a",
      "g", "e", "s", "/", "1", "x", "1", ".", "p", "n", "g">>

UpperCase ==
    <<"A", "B", "C", "D", "E", "F", "G", "H", "I", "J", "K", "L", "M", "N", "O", "P",
      "Q", "R", "S", "T", "U", "V", "W", "X", "Y", "Z">>
LowerCase ==
    <<"a", "b", "c", "d", "e", "f", "g", "h", "i", "j", "k", "l", "m", "n", "o", "p",
      "q", "r", "s", "t", "u", "v", "w", "x", "y", "z">>

\* str.lower()
Lower(s) ==
    [i \in DOMAIN s |->
        IF \E j \in DOMAIN UpperCase : UpperCase[j] = s[i]
        THEN LowerCase[CHOOSE j \in DOMAIN UpperCase : UpperCase[j] = s[i]]
        ELSE s[i]]

\* str.replace(c, "") for one character
Remove(s, c) == SelectSeq(s, LAMBDA x : x # c)

\* sub in s
Contains(s, sub) ==
    \E i \in 0..(Len(s) - Len(sub)) : SubSeq(s, i + 1, i + Len(sub)) = sub

\* str(value), as an f-string renders it
Format(val) == IF val.t = "str" THEN val.v ELSE Repr(val)

\* d.get(k, ""): the default only when the key is missing
GetOrEmpty(d, k) == IF HasKey(d, k) THEN Item(d, k) ELSE StrVal(<<>>)

\* mutant: the placeholder test of line 33 is missing
ImageIdentityOfAnyUrl(venue, unique_id) ==
    LET img == Get(venue, k_image_url)
    IN  IF ~Truthy(img) THEN Returned(unique_id)
        ELSE IF img.t # "str" THEN Raised(NoneVal)
        ELSE LET parts == Split(img.v, "/")
                 last == parts[Len(parts)]
                 id == IF "." \in Range(last) THEN StrVal(Split(last, ".")[1])
                                              ELSE unique_id
             IN  Returned(IF Truthy(id) THEN id ELSE NoneVal)

\* lines 33-39: the identity taken from image_url, None when there is none;
\* a truthy image_url that is no string raises at the "not in" or the split
ImageIdentity(venue, unique_id) ==
    LET img == Get(venue, k_image_url)
    IN  IF ~Truthy(img) THEN Returned(unique_id)
        ELSE IF img.t # "str" THEN Raised(NoneVal)
        ELSE IF Contains(img.v, PlaceholderImage) THEN Returned(unique_id)
        ELSE LET parts == Split(img.v, "/")
                 last == parts[Len(parts)]
                 id == IF "." \in Range(last) THEN StrVal(Split(last, ".")[1])
                                              ELSE unique_id
             IN  Returned(IF Truthy(id) THEN id ELSE NoneVal)

\* lines 43-51: title|brand|model|year|km without spaces, in lower case
CompositeKey(venue) ==
    Lower(Remove(Join(<<Format(GetOrEmpty(venue, k_title)),
                        Format(GetOrEmpty(venue, k_brand)),
                        Format(GetOrEmpty(venue, k_model)),
                        Format(GetOrEmpty(venue, k_year)),
                        Format(GetOrEmpty(venue, k_km))>>, <<"|">>), " "))

\* lines 29-57: unique_id as is_duplicate_venue computes it before it looks
\* into seen_ids: listing_id, else the image token, else the composite key,
\* else str(venue)
UniqueId(venue) ==
    LET listing == Get(venue, k_listing_id)
        byImage == IF Truthy(listing) THEN Returned(listing)
                   ELSE ImageIdentity(venue, listing)
    IN  IF byImage.raised THEN byImage
        ELSE IF Truthy(byImage.value) THEN byImage
        ELSE LET composite == StrVal(CompositeKey(venue))
             IN  IF Truthy(composite) THEN Returned(composite)
                 ELSE Returned(StrVal(StrOfDict(venue)))

-----------------------------------------------------------------------------
(* The run: the start-button handler and crawl_venues *)

NoneArg == [none |-> TRUE, n |-> 0]
IntArg(n) == [none |-> FALSE, n |-> n]

ValidPairs == {<<p, m>> : p \in {"gemini"}, m \in {"gemini-2.5-flash"}}
AnyPairs == ValidPairs \cup {<<"nonexistent", "gpt-4o">>, <<"openai", "nonexistent-model">>}

ApiKeys == {<<>>, Repeat("k", 5), Repeat("k", MinKeyLen)}

KeyStrings ==
    { k_title \o <<",", " ">> \o k_price,
      <<" ">> \o k_title \o <<",", ",">> \o k_listing_id \o <<" ">> }

\* the state of the locals before crawl_venues has set them
Unset ==
    /\ keys_list = <<>>
    /\ page_number = 0
    /\ all_venues = <<>>
    /\ seen_ids = {}
    /\ page_venues = <<>>
    /\ remaining = 0
    /\ returned = <<>>
    /\ progress = <<>>
    /\ fetches = <<>>
    /\ stop = "none"
    /\ last_payload = "none"
    /\ cps_result = NoCall
    /\ vak_result = FALSE
    /\ providers = LLM_PROVIDERS
    /\ dup_log = <<>>
    /\ raw_selector = <<>>
    /\ gfs_result = <<>>

\* The app takes provider and model from select boxes filled from the catalog
\* and max_pages from a number input (min_value 1) shown only when the box is
\* ticked; a direct caller passes any arguments.
Init ==
    /\ via \in {"app", "direct"}
    /\ api_key \in ApiKeys
    /\ required_keys_str \in KeyStrings
    /\ use_page_limit \in BOOLEAN
    /\ max_pages \in {NoneArg} \cup {IntArg(n) : n \in 0..MaxPagesArg}
    /\ \E pm \in AnyPairs : llm_provider = pm[1] /\ llm_model = pm[2]
    /\ via = "app" =>
          /\ <<llm_provider, llm_model>> \in ValidPairs
          /\ IF use_page_limit THEN ~max_pages.none /\ max_pages.n >= 1
                               ELSE max_pages.none
    /\ via = "direct" =>
          /\ Len(api_key) \in {0, MinKeyLen}
          /\ ~use_page_limit => max_pages \in {NoneArg, IntArg(1)}
    /\ pc = IF via = "app" THEN "idle" ELSE "called"
    /\ Unset

\* app.py 152-185: the start button validates the key, then runs crawl_venues
StartButton ==
    /\ pc = "idle"
    /\ pc' = IF api_key = <<>> THEN "rejected"
             ELSE IF ~validate_api_key(api_key) THEN "rejected"
             ELSE "called"
    /\ UNCHANGED <<args, lib, providers, keys_list, page_number, all_venues, seen_ids,
                   page_venues, remaining, returned, progress, fetches, stop,
                   last_payload, cps_result, vak_result>>

\* crawler_logic.py 71-118: provider string, keys_list, initial state
Prologue ==
    /\ pc = "called"
    /\ LET r == create_provider_string(providers, llm_provider, llm_model)
       IN  IF r.raised
           THEN /\ progress' = <<Line("llm_error", r.value, 0, 0)>>
                /\ returned' = <<>>
                /\ stop' = "llm-config-error"
                /\ pc' = "done"
                /\ UNCHANGED <<keys_list, page_number, all_venues, seen_ids>>
           ELSE /\ keys_list' = ParseKeys(required_keys_str)
                /\ page_number' = 1
                /\ all_venues' = <<>>
                /\ seen_ids' = {}
                /\ progress' =
                     <<Line("using_llm", r.value, 0, 0), Line("starting", "", 0, 0),
                       IF PageLimitSet(use_page_limit, max_pages)
                       THEN Line("limit_set", "", max_pages.n, 0)
                       ELSE Line("no_limit", "", 0, 0)>>
                /\ pc' = "loop"
                /\ UNCHANGED <<returned, stop>>
    /\ UNCHANGED <<args, lib, providers, page_venues, remaining, fetches, last_payload,
                   cps_result, vak_result>>

\* mutant: the summary line of line 195 is not emitted
AfterBreakNoSummary(lines) == lines

\* crawler_logic.py 195: the summary line follows the line of the break
AfterBreak(lines) ==
    Append(lines, Line("complete", "", Len(all_venues), page_number - 1))

\* mutant: a break of the loop emits no line of its own
BreakSilent(kind, n, reason) ==
    /\ progress' = AfterBreak(progress)
    /\ stop' = reason
    /\ returned' = all_venues
    /\ pc' = "done"
    /\ UNCHANGED <<page_number, all_venues>>

\* a break of the loop with its progress line, then lines 195-196: the
\* summary line and the return of all_venues
Break(kind, n, reason) ==
    /\ progress' = AfterBreak(Append(progress, Line(kind, "", n, 0)))
    /\ stop' = reason
    /\ returned' = all_venues
    /\ pc' = "done"
    /\ UNCHANGED <<page_number, all_venues>>

\* crawler_logic.py 119-135: the limit check, then the render-only fetch is issued
LoopHead ==
    /\ pc = "loop"
    /\ IF PageLimitReached(use_page_limit, max_pages, page_number)
       THEN /\ Break("limit_reached", max_pages.n, "page-limit-reached")
            /\ UNCHANGED fetches
       ELSE /\ progress' = Append(progress, Line("processing", "", page_number, 0))
            /\ fetches' = Append(fetches, Fetch("render", page_number))
            /\ pc' = "rendering"
            /\ UNCHANGED <<stop, returned, page_number, all_venues>>
    /\ UNCHANGED <<args, lib, providers, keys_list, seen_ids, page_venues, remaining,
                   last_payload, cps_result, vak_result>>

\* crawler_logic.py 137-153: the render-only fetch returns; on success the
\* settle delay passes and the extraction fetch is issued
RenderReturns(success) ==
    /\ pc = "rendering"
    /\ IF ~success
       THEN /\ Break("load_failed", page_number, "fetch-failed")
            /\ UNCHANGED fetches
       ELSE /\ fetches' = Append(fetches, Fetch("extract", page_number))
            /\ pc' = "extracting"
            /\ UNCHANGED <<progress, stop, returned, page_number, all_venues>>
    /\ UNCHANGED <<args, lib, providers, keys_list, seen_ids, page_venues, remaining,
                   last_payload, cps_result, vak_result>>

\* an exception nothing catches leaves crawl_venues: no line, no return
Crash ==
    /\ pc' = "crashed"
    /\ UNCHANGED <<progress, stop, returned, page_number, all_venues>>

\* crawler_logic.py 155-171: the extraction fetch returns; its content is
\* parsed and, when it is a non-empty list, the loop over it begins
ExtractReturns(result) ==
    /\ pc = "extracting"
    /\ last_payload' = PayloadShape(result)
    /\ IF ExtractionFailed(result)
       THEN Break("extract_error", page_number, "extraction-failed")
            /\ UNCHANGED <<page_venues, remaining>>
       ELSE IF ParseFails(result)
       THEN Break("parse_failed", page_number, "payload-malformed")
            /\ UNCHANGED <<page_venues, remaining>>
       ELSE IF DataFalsy(result)
       THEN Break("no_venues", page_number, "no-candidates")
            /\ UNCHANGED <<page_venues, remaining>>
       ELSE IF NotAList(result)
       THEN Crash /\ page_venues' = <<>> /\ UNCHANGED remaining
       ELSE IF result.n = 0
       THEN Break("no_valid", page_number, "no-new-venues")
            /\ page_venues' = <<>> /\ UNCHANGED remaining
       ELSE /\ page_venues' = <<>>
            /\ remaining' = result.n
            /\ pc' = "filtering"
            /\ UNCHANGED <<progress, stop, returned, page_number, all_venues>>
    /\ UNCHANGED <<args, lib, providers, keys_list, seen_ids, fetches, cps_result, vak_result>>

\* line 181: venue_id not in seen_ids
NotSeen(venue_id, seen) == venue_id \notin seen

\* mutant: the page is closed as if it had venues, whatever it holds
PageHasVenuesAlways(page) == TRUE

\* line 185: if page_venues
PageHasVenues(page) == page # <<>>

\* crawler_logic.py 172-193: one pass of the for loop, over element e; after
\* the last element, the page is closed: its venues are appended and the next
\* page follows, or the loop breaks
Candidate(e) ==
    /\ pc = "filtering"
    /\ IF ~e.isdict
       THEN /\ Crash
            /\ last_payload' = "array_nonmapping"
            /\ UNCHANGED <<seen_ids, page_venues, remaining>>
       ELSE LET venue == StripError(e.d)
                fresh == IsComplete(venue, keys_list) /\ NotSeen(VenueId(venue), seen_ids)
                page == IF fresh THEN Append(page_venues, venue) ELSE page_venues
            IN  /\ seen_ids' = IF fresh THEN seen_ids \cup {VenueId(venue)} ELSE seen_ids
                /\ page_venues' = page
                /\ remaining' = remaining - 1
                /\ UNCHANGED last_payload
                /\ IF remaining > 1
                   THEN UNCHANGED <<pc, progress, stop, returned, page_number, all_venues>>
                   ELSE IF PageHasVenues(page)
                   THEN /\ progress' = Append(progress,
                                          Line("extracted", "", page_number, Len(page)))
                        /\ all_venues' = all_venues \o page
                        /\ page_number' = page_number + 1
                        /\ pc' = "loop"
                        /\ UNCHANGED <<stop, returned>>
                   ELSE Break("no_valid", page_number, "no-new-venues")
    /\ UNCHANGED <<args, lib, providers, keys_list, fetches, cps_result, vak_result>>

Next ==
    \/ StartButton
    \/ Prologue
    \/ LoopHead
    \/ \E success \in BOOLEAN : RenderReturns(success)
    \/ \E result \in Results : ExtractReturns(result)
    \/ \E e \in Elements : Candidate(e)

Spec == Init /\ [][Next]_vars

\* the run when every call it waits for returns: the fetches and the delays
\* come back, so a step that can be taken is taken
SpecFair == Spec /\ WF_vars(Next)


-----------------------------------------------------------------------------
(* create_provider_string and validate_api_key on their own *)

AllModels == UNION {LLM_PROVIDERS[p] : p \in DOMAIN LLM_PROVIDERS}

\* sequences over S of length at most n
RECURSIVE SeqsUpTo(_, _)
SeqsUpTo(S, n) ==
    IF n = 0 THEN {<<>>}
    ELSE LET shorter == SeqsUpTo(S, n - 1)
         IN  shorter \cup {Append(q, e) : q \in shorter, e \in S}

\* the arguments no call of this specification reads
Idle ==
    /\ via = "direct"
    /\ required_keys_str = <<>>
    /\ use_page_limit = FALSE
    /\ max_pages = NoneArg
    /\ pc = "idle"
    /\ Unset

InitProvider ==
    /\ llm_provider \in DOMAIN LLM_PROVIDERS \cup {"nonexistent"}
    /\ llm_model \in AllModels \cup {"nonexistent-model"}
    /\ api_key = <<>>
    /\ Idle

\* manager.create_provider_string(llm_provider, llm_model), as test_providers.py calls it
CallCreateProviderString ==
    /\ pc = "idle"
    /\ cps_result' = create_provider_string(providers, llm_provider, llm_model)
    /\ pc' = "done"
    /\ UNCHANGED <<args, lib, providers, keys_list, page_number, all_venues, seen_ids,
                   page_venues, remaining, returned, progress, fetches, stop,
                   last_payload, vak_result>>

NextProvider == CallCreateProviderString

SpecProvider == InitProvider /\ [][NextProvider]_vars

InitKey ==
    /\ llm_provider = "gemini"
    /\ llm_model = "gemini-2.5-flash"
    /\ api_key \in SeqsUpTo({" ", "k"}, MaxKeyLen)
    /\ Idle

\* manager.validate_api_key(api_key), as test_providers.py calls it
CallValidateApiKey ==
    /\ pc = "idle"
    /\ vak_result' = validate_api_key(api_key)
    /\ pc' = "done"
    /\ UNCHANGED <<args, lib, providers, keys_list, page_number, all_venues, seen_ids,
                   page_venues, remaining, returned, progress, fetches, stop,
                   last_payload, cps_result>>

NextKey == CallValidateApiKey

SpecKey == InitKey /\ [][NextKey]_vars


-----------------------------------------------------------------------------
(* is_duplicate_venue on its own *)

\* most is_duplicate_venue calls made on one seen_ids set
MaxChecks == 2

url_token == <<"h", "/", "7", ".", "j">>
url_no_token == <<"h", "/", ".", "j">>
url_no_dot == <<"h", "/", "x">>
url_placeholder == <<"h", "/">> \o PlaceholderImage

\* candidates with string, number and null values in the fields the resolver reads
Venues ==
    { <<KV(k_listing_id, StrVal(<<"L">>)), KV(k_title, StrVal(<<"a", "b">>))>>,
      <<KV(k_listing_id, StrVal(<<"L">>)), KV(k_image_url, StrVal(url_token))>>,
      <<KV(k_listing_id, NumVal(<<"7">>)), KV(k_title, StrVal(<<"a", "b">>))>>,
      <<KV(k_listing_id, NumVal(<<"0">>)), KV(k_title, StrVal(<<"a", "b">>))>>,
      <<KV(k_listing_id, StrVal(<<>>)), KV(k_image_url, StrVal(url_token)),
        KV(k_title, StrVal(<<"a", "b">>))>>,
      <<KV(k_image_url, StrVal(url_token)), KV(k_title, StrVal(<<"c", "d">>))>>,
      <<KV(k_image_url, StrVal(url_placeholder)), KV(k_title, StrVal(<<"a", "b">>))>>,
      <<KV(k_image_url, StrVal(url_placeholder)), KV(k_title, StrVal(<<"c", "d">>))>>,
      <<KV(k_image_url, StrVal(url_no_token)), KV(k_title, StrVal(<<"a", "b">>))>>,
      <<KV(k_image_url, StrVal(url_no_dot)), KV(k_title, StrVal(<<"a", "b">>))>>,
      <<KV(k_image_url, NumVal(<<"5">>)), KV(k_title, StrVal(<<"a", "b">>))>>,
      <<KV(k_image_url, NoneVal), KV(k_title, StrVal(<<"a", " ", "b">>))>>,
      <<KV(k_title, StrVal(<<"A", " ", "B">>))>>,
      <<KV(k_title, StrVal(<<"a", "\t", "b">>))>>,
      <<KV(k_title, StrVal(<<"a", "b">>)), KV(k_brand, StrVal(<<"T">>)),
        KV(k_model, StrVal(<<"m">>)), KV(k_year, NumVal(<<"9">>)), KV(k_km, NoneVal)>>,
      <<KV(k_title, StrVal(<<"a", "b">>)), KV(k_brand, StrVal(<<"t">>)),
        KV(k_model, StrVal(<<"M">>)), KV(k_year, StrVal(<<"9">>)), KV(k_km, NoneVal)>>,
      <<KV(k_title, StrVal(<<"a", "b">>)), KV(k_year, StrVal(<<"9">>))>>,
      <<>> }

InitDedup ==
    /\ llm_provider = "gemini"
    /\ llm_model = "gemini-2.5-flash"
    /\ api_key = <<>>
    /\ Idle

\* mutant: line 63 is missing, the call only looks into seen_ids
SeenAfterNoInsert(seen, unique_id) == seen

\* data_utils.py 63: seen_ids.add(unique_id)
SeenAfter(seen, unique_id) == seen \cup {unique_id}

\* is_duplicate_venue(venue, seen_ids): the identity of lines 29-57, then the
\* membership test of line 60 and the insertion of line 63
CallIsDuplicateVenue(venue) ==
    /\ pc = "idle"
    /\ Len(dup_log) < MaxChecks
    /\ LET unique_id == UniqueId(venue)
           out == IF unique_id.raised THEN "raised"
                  ELSE IF unique_id.value \in seen_ids THEN "True"
                  ELSE "False"
       IN  /\ dup_log' = Append(dup_log, [venue |-> venue, id |-> unique_id, out |-> out])
           /\ seen_ids' = IF out = "False" THEN SeenAfter(seen_ids, unique_id.value)
                          ELSE seen_ids
    /\ UNCHANGED <<args, providers, pc, keys_list, page_number, all_venues, page_venues,
                   remaining, returned, progress, fetches, stop, last_payload,
                   cps_result, vak_result, raw_selector, gfs_result>>

NextDedup == \E venue \in Venues : CallIsDuplicateVenue(venue)

SpecDedup == InitDedup /\ [][NextDedup]_vars


-----------------------------------------------------------------------------
(* generate_flexible_selector (src/utils/selector_utils.py) *)

\* selector_utils.py 6-11
STOPWORDS ==
    { <<"w", "r", "a", "p", "p", "e", "r">>,
      <<"c", "o", "n", "t", "a", "i", "n", "e", "r">>, <<"m", "a", "i", "n">>,
      <<"a", "c", "t", "i", "v", "e">>, <<"b", "u", "t", "t", "o", "n">>,
      <<"b", "t", "n">>, <<"i", "c", "o", "n">>, <<"i", "m", "a", "g", "e">>,
      <<"i", "m", "g">>, <<"m", "e", "d", "i", "a">>,
      <<"c", "o", "n", "t", "e", "n", "t">>, <<"h", "o", "l", "d", "e", "r">>,
      <<"i", "n", "n", "e", "r">>, <<"o", "u", "t", "e", "r">>,
      <<"s", "l", "i", "d", "e">>, <<"s", "h", "a", "d", "o", "w">>,
      <<"l", "i", "g", "h", "t">>, <<"d", "a", "r", "k">>,
      <<"s", "t", "y", "l", "e">>, <<"l", "a", "y", "o", "u", "t">>,
      <<"g", "r", "i", "d">>, <<"r", "o", "w">>, <<"c", "o", "l">>,
      <<"l", "i", "n", "k">>, <<"n", "a", "v">>, <<"f", "i", "l", "t", "e", "r">>,
      <<"u", "s", "e", "d">>, <<"s", "p", "l", "i", "d", "e">>,
      <<"c", "e", "l", "l">> }

\* selector_utils.py 15-20: primary keyword -> its synonym list
KEYWORD_SYNONYMS ==
    (<<"l", "i", "s", "t", "i", "n", "g">> :>
        <<<<"L", "i", "s", "t", "i", "n", "g", "C", "e", "l", "l">>,
          <<"P", "r", "o", "p", "e", "r", "t", "y", "C", "a", "r", "d">>,
          <<"l", "i", "s", "t", "i", "n", "g", "-", "i", "t", "e", "m">>>>) @@
    (<<"p", "r", "o", "d", "u", "c", "t">> :>
        <<<<"i", "t", "e", "m">>,
          <<"p", "r", "o", "d", "u", "c", "t", "-", "c", "a", "r", "d">>,
          <<"p", "r", "d">>>>) @@
    (<<"s", "e", "a", "r", "c", "h">> :>
        <<<<"r", "e", "s", "u", "l", "t", "-", "i", "t", "e", "m">>,
          <<"s", "e", "a", "r", "c", "h", "-", "r", "e", "s", "u", "l", "t">>>>) @@
    (<<"c", "a", "r", "d">> :>
        <<<<"p", "a", "n", "e", "l">>, <<"t", "i", "l", "e">>,
          <<"c", "a", "r", "d", "-", "c", "o", "n", "t", "a", "i", "n", "e", "r">>>>)

\* the characters of a selector in code-point order, from " " (32) to "~" (126),
\* backslash and grave accent left out
Ascii ==
    <<" ", "!", "\"", "#", "$", "%", "&", "'", "(", ")", "*", "+", ",", "-", ".",
      "/", "0", "1", "2", "3", "4", "5", "6", "7", "8", "9", ":", ";", "<", "=", ">",
      "?", "@", "A", "B", "C", "D", "E", "F", "G", "H", "I", "J", "K", "L", "M", "N",
      "O", "P", "Q", "R", "S", "T", "U", "V", "W", "X", "Y", "Z", "[", "]",
      "^", "_", "a", "b", "c", "d", "e", "f", "g", "h", "i", "j", "k", "l", "m",
      "n", "o", "p", "q", "r", "s", "t", "u", "v", "w", "x", "y", "z", "{", "|", "}",
      "~">>

\* the rank of c in code-point order, which is how ord(c) orders characters
Ord(c) == CHOOSE i \in DOMAIN Ascii : Ascii[i] = c

Uppers == Range(UpperCase)
Lowers == Range(LowerCase)
Digits == {"0", "1", "2", "3", "4", "5", "6", "7", "8", "9"}
\* the class [a-zA-Z0-9_-] of line 128
ClassChars == Uppers \cup Lowers \cup Digits \cup {"_", "-"}
\* the class \s
Spaces == {" ", "\t", "\n", "\r"}
\* the class ['"] of line 130
Quotes == {"'", "\""}

\* how many leading characters of s are in S
PrefixLen(s, S) ==
    IF \A i \in DOMAIN s : s[i] \in S THEN Len(s)
    ELSE (CHOOSE i \in DOMAIN s : s[i] \notin S /\ \A j \in 1..(i - 1) : s[j] \in S) - 1

\* s from position i on
From(s, i) == SubSeq(s, i, Len(s))

\* s.startswith(prefix)
StartsWith(s, prefix) == Len(s) >= Len(prefix) /\ SubSeq(s, 1, Len(prefix)) = prefix

\* line 128: re.findall(r'\.([a-zA-Z0-9_-]+)', s)
RECURSIVE SimpleClasses(_)
SimpleClasses(s) ==
    IF s = <<>> THEN <<>>
    ELSE LET n == PrefixLen(Tail(s), ClassChars)
         IN  IF Head(s) = "." /\ n > 0
             THEN <<SubSeq(s, 2, 1 + n)>> \o SimpleClasses(From(s, 2 + n))
             ELSE SimpleClasses(Tail(s))

AttrOpen == <<"[", "c", "l", "a", "s", "s">>

\* The match of r'\[class\s*.*?=\s*[\'"](.*?)[\'"]\]' that starts at the head of
\* s: after "[class" and its white space, the first "=" on the same line that
\* is followed by white space, a quote and, on the same line, a quote with "]"
\* behind it; the group ends at the first such quote.
AttrMatchAt(s) ==
    LET from == Len(AttrOpen) + PrefixLen(From(s, Len(AttrOpen) + 1), Spaces)
        Open(e) == e + 1 + PrefixLen(From(s, e + 1), Spaces)
        Closes(e) ==
            {r \in (Open(e) + 1)..(Len(s) - 1) :
                /\ s[r] \in Quotes
                /\ s[r + 1] = "]"
                /\ \A h \in (Open(e) + 1)..(r - 1) : s[h] # "\n"}
        Equals ==
            {e \in (from + 1)..Len(s) :
                /\ s[e] = "="
                /\ \A h \in (from + 1)..(e - 1) : s[h] # "\n"
                /\ Open(e) <= Len(s)
                /\ s[Open(e)] \in Quotes
                /\ Closes(e) # {}}
    IN  IF ~StartsWith(s, AttrOpen) \/ Equals = {}
        THEN [found |-> FALSE, group |-> <<>>, end |-> 0]
        ELSE LET e == CHOOSE x \in Equals : \A y \in Equals : x <= y
                 r == CHOOSE x \in Closes(e) : \A y \in Closes(e) : x <= y
             IN  [found |-> TRUE, group |-> SubSeq(s, Open(e) + 1, r - 1), end |-> r + 1]

\* line 130: re.findall of the attribute pattern, the groups of its matches
RECURSIVE AttrClasses(_)
AttrClasses(s) ==
    IF s = <<>> THEN <<>>
    ELSE LET m == AttrMatchAt(s)
         IN  IF m.found THEN <<m.group>> \o AttrClasses(From(s, m.end + 1))
             ELSE AttrClasses(Tail(s))

\* line 132: str.split() without argument: the runs of non-space characters
RECURSIVE SplitWhitespace(_)
SplitWhitespace(s) ==
    LET t == From(s, PrefixLen(s, Spaces) + 1)
        n == PrefixLen(t, {c \in Range(t) : c \notin Spaces})
    IN  IF t = <<>> THEN <<>>
        ELSE <<SubSeq(t, 1, n)>> \o SplitWhitespace(From(t, n + 1))

\* line 43: re.split(r'__|_|-|\s', s)
RECURSIVE SplitDelimiters(_)
SplitDelimiters(s) ==
    LET seps == {"_", "-"} \cup Spaces
        n == PrefixLen(s, {c \in Range(s) : c \notin seps})
        width == IF StartsWith(From(s, n + 1), <<"_", "_">>) THEN 2 ELSE 1
    IN  IF n = Len(s) THEN <<s>>
        ELSE <<SubSeq(s, 1, n)>> \o SplitDelimiters(From(s, n + 1 + width))

\* line 50: re.findall(r'[A-Z]?[a-z]+|[A-Z]+(?=[A-Z]|$)', part)
RECURSIVE CamelCaseSplit(_)
CamelCaseSplit(part) ==
    IF part = <<>> THEN <<>>
    ELSE LET lows == PrefixLen(part, Lowers)
             capLows == PrefixLen(Tail(part), Lowers)
             ups == PrefixLen(part, Uppers)
             n == IF lows > 0 THEN lows
                  ELSE IF Head(part) \in Uppers /\ capLows > 0 THEN 1 + capLows
                  ELSE IF ups = Len(part) THEN ups
                  ELSE IF ups >= 2 THEN ups - 1
                  ELSE 0
         IN  IF n > 0 THEN <<SubSeq(part, 1, n)>> \o CamelCaseSplit(From(part, n + 1))
             ELSE CamelCaseSplit(Tail(part))

\* lines 40-52: _split_into_keywords
split_into_keywords(class_str) ==
    LET parts == SelectSeq(SplitDelimiters(class_str), LAMBDA part : part # <<>>)
    IN  Concat([i \in DOMAIN parts |-> CamelCaseSplit(parts[i])])

\* lines 127-132: class_strings
ClassStrings(raw) ==
    Range(SimpleClasses(raw))
    \cup UNION {Range(SplitWhitespace(class_group)) : class_group \in Range(AttrClasses(raw))}

\* lines 140-142: all_keywords_raw, as the set of its members
AllKeywordsRaw(raw) == UNION {Range(split_into_keywords(s)) : s \in ClassStrings(raw)}

\* mutant: no keyword triggers the synonym override
PrimarySynonymsNone(keywords) == {}

\* lines 145-147: primary_synonyms_found
PrimarySynonymsFound(keywords) ==
    UNION {Range(KEYWORD_SYNONYMS[Lower(keyword)]) :
              keyword \in {k \in keywords : Lower(k) \in DOMAIN KEYWORD_SYNONYMS}}

\* line 156: the shortest keyword the fallback keeps
MinKeywordLen == 4

\* str.isalpha()
IsAlpha(s) == s # <<>> /\ \A i \in DOMAIN s : s[i] \in Uppers \cup Lowers

\* lines 154-158: the keywords the fallback deconstruction keeps
GenericKeywords(keywords) ==
    {keyword \in keywords :
        ~(\/ Lower(keyword) \in STOPWORDS
          \/ ~IsAlpha(keyword)
          \/ Len(Lower(keyword)) < MinKeywordLen)}

\* line 163: f"[class*='{kw}']"
Fragment(kw) == <<"[", "c", "l", "a", "s", "s", "*", "=", "'">> \o kw \o <<"'", "]">>

\* a < b for strings: by code point, a proper prefix first
RECURSIVE Less(_, _)
Less(a, b) ==
    IF b = <<>> THEN FALSE
    ELSE IF a = <<>> THEN TRUE
    ELSE IF Head(a) # Head(b) THEN Ord(Head(a)) < Ord(Head(b))
    ELSE Less(Tail(a), Tail(b))

\* mutant: the fragments are rendered from the largest to the smallest
SortedDescending(S) ==
    LET RECURSIVE Desc(_)
        Desc(T) == IF T = {} THEN <<>>
                   ELSE LET top == CHOOSE x \in T : \A y \in T \ {x} : Less(y, x)
                        IN  <<top>> \o Desc(T \ {top})
    IN  Desc(S)

\* line 163: sorted(...) of a collection without repetitions
Sorted(S) ==
    LET RECURSIVE Asc(_)
        Asc(T) == IF T = {} THEN <<>>
                  ELSE LET least == CHOOSE x \in T : \A y \in T \ {x} : Less(x, y)
                       IN  <<least>> \o Asc(T \ {least})
    IN  Asc(S)

\* mutant: lines 124-125 are missing
BlankNever(raw) == FALSE

\* line 124: not raw_selector or not raw_selector.strip()
Blank(raw) == raw = <<>> \/ Strip(raw) = <<>>

\* lines 110-163
generate_flexible_selector(raw) ==
    IF Blank(raw) THEN <<>>
    ELSE IF ClassStrings(raw) = {} THEN raw
    ELSE LET all_keywords_raw == AllKeywordsRaw(raw)
             primary_synonyms_found == PrimarySynonymsFound(all_keywords_raw)
             final_selectors == IF primary_synonyms_found # {} THEN primary_synonyms_found
                                ELSE GenericKeywords(all_keywords_raw)
         IN  IF final_selectors = {} THEN raw
             ELSE Join(Sorted({Fragment(kw) : kw \in final_selectors}), <<",", " ">>)

\* most tokens in a selector put together from SelectorTokens
MaxTokens == 3

\* pieces of selectors: punctuation, an attribute expression's two ends, class
\* words with and without a primary keyword, a stopword, a word with a digit
SelectorTokens ==
    { <<".">>,
      <<"-">>,
      <<" ">>,
      <<"[", "c", "l", "a", "s", "s", "^", "=", "'">>,
      <<"'", "]">>,
      <<"L", "i", "s", "t", "i", "n", "g">>,
      <<"p", "r", "o", "d", "u", "c", "t">>,
      <<"C", "a", "r", "d">>,
      <<"w", "r", "a", "p", "p", "e", "r">>,
      <<"i", "t", "e", "m", "s">>,
      <<"x", "2">> }

example_product ==
    <<".", "p", "r", "o", "d", "u", "c", "t", "-", "i", "t", "e", "m", "-", "c", "o",
      "n", "t", "a", "i", "n", "e", "r", "-", "w", "r", "a", "p", "p", "e", "r">>

example_listing ==
    <<"[", "c", "l", "a", "s", "s", "^", "=", "'", "L", "i", "s", "t", "i", "n", "g",
      "C", "e", "l", "l", "I", "t", "e", "m", "_", "c", "e", "l", "l", "I", "t", "e",
      "m", "W", "r", "a", "p", "p", "e", "r", "_", "_", "t", "2", "h", "O", "2", "'",
      "]">>

example_search ==
    <<"[", "c", "l", "a", "s", "s", "^", "=", "'", "s", "e", "a", "r", "c", "h", "-",
      "r", "e", "s", "u", "l", "t", "-", "c", "a", "r", "d", "-", "m", "a", "i", "n",
      "'", "]">>

\* selectors of the prompt's examples and of other shapes
SelectorExamples ==
    { example_product, example_listing, example_search,
      <<"d", "i", "v", ".", "c", "a", "r", "d", ".", "L", "i", "s", "t", "i", "n", "g">>,
      <<"[", "c", "l", "a", "s", "s", " ", "~", "=", " ", "\"", "f", "o", "o", "o", " ", "b", "a", "r", "r", "\"", "]">>,
      <<".", "S", "e", "a", "r", "c", "h", "C", "A", "R", "D">>,
      <<"[", "c", "l", "a", "s", "s", "*", "=", "'", "x", ".", "y", "y", "y", "y", "'", "]">>,
      <<" ", " ">>,
      <<" ", "\t">>,
      <<"d", "i", "v", " ", ">", " ", "a">>,
      <<"[", "c", "l", "a", "s", "s", "=", "x", "]">>,
      <<"#", "i", "d">> }

Selectors == SelectorExamples \cup {Concat(ts) : ts \in SeqsUpTo(SelectorTokens, MaxTokens)}

InitSelector ==
    /\ llm_provider = "gemini"
    /\ llm_model = "gemini-2.5-flash"
    /\ api_key = <<>>
    /\ via = "direct"
    /\ required_keys_str = <<>>
    /\ use_page_limit = FALSE
    /\ max_pages = NoneArg
    /\ pc = "idle"
    /\ keys_list = <<>>
    /\ page_number = 0
    /\ all_venues = <<>>
    /\ seen_ids = {}
    /\ page_venues = <<>>
    /\ remaining = 0
    /\ returned = <<>>
    /\ progress = <<>>
    /\ fetches = <<>>
    /\ stop = "none"
    /\ last_payload = "none"
    /\ cps_result = NoCall
    /\ vak_result = FALSE
    /\ providers = LLM_PROVIDERS
    /\ dup_log = <<>>
    /\ raw_selector \in Selectors
    /\ gfs_result = <<>>

\* generate_flexible_selector(raw_selector)
CallGenerateFlexibleSelector ==
    /\ pc = "idle"
    /\ gfs_result' = generate_flexible_selector(raw_selector)
    /\ pc' = "done"
    /\ UNCHANGED <<args, providers, keys_list, page_number, all_venues, seen_ids,
                   page_venues, remaining, returned, progress, fetches, stop,
                   last_payload, cps_result, vak_result, dup_log, raw_selector>>

NextSelector == CallGenerateFlexibleSelector

SpecSelector == InitSelector /\ [][NextSelector]_vars

-----------------------------------------------------------------------------
(* Properties *)

\* the records accepted so far: accumulated, on the current page, or returned
Accepted == Range(all_venues) \cup Range(page_venues) \cup Range(returned)

\* rec holds key with a value that is neither null nor empty nor otherwise falsy
HoldsTruthy(rec, key) ==
    \E i \in DOMAIN rec :
        /\ rec[i].k = key
        /\ rec[i].v.t # "null"
        /\ rec[i].v.v # <<>>
        /\ rec[i].v # NumVal(<<"0">>)
        /\ rec[i].v # BoolVal(FALSE)

\* C1: every record accepted so far (accumulated, accepted on the current page
\* or returned) holds every key of the required-field list with a value that
\* is neither null nor empty.
C1_AcceptedAreComplete ==
    \A rec \in Accepted : \A i \in DOMAIN keys_list : HoldsTruthy(rec, keys_list[i])

\* C1 witness: a run over two required fields has returned two records.
C1_Witness ==
    /\ pc = "done"
    /\ keys_list = <<k_title, k_price>>
    /\ Len(returned) >= 2

\* C2: no two records of the returned collection have the same identity under
\* the priority chain of is_duplicate_venue (listing_id, image token, composite
\* key, str(venue)).
C2_NoSharedResolverIdentity ==
    \A i, j \in DOMAIN returned :
        i # j => UniqueId(returned[i]) # UniqueId(returned[j])

\* the page limit L is in force: use_page_limit with a positive max_pages
LimitInForce == use_page_limit /\ ~max_pages.none /\ max_pages.n >= 1

\* C3: with a page limit L in force no fetch is issued for a page beyond L, the
\* loop never works on a page beyond L, and a run that got past page L stops
\* there with the page-limit reason, after both fetches of page L.
C3_PageLimitStops ==
    LimitInForce =>
        /\ \A i \in DOMAIN fetches : fetches[i].page <= max_pages.n
        /\ pc \in {"rendering", "extracting", "filtering"} => page_number <= max_pages.n
        /\ page_number <= max_pages.n + 1
        /\ (pc = "done" /\ page_number = max_pages.n + 1) =>
              /\ stop = "page-limit-reached"
              /\ Fetch("render", max_pages.n) \in Range(fetches)
              /\ Fetch("extract", max_pages.n) \in Range(fetches)
        /\ stop = "page-limit-reached" => page_number = max_pages.n + 1

\* C3 witness: a run limited to 2 pages stopped at the limit after 4 fetches.
C3_Witness ==
    /\ LimitInForce
    /\ max_pages.n = 2
    /\ pc = "done"
    /\ stop = "page-limit-reached"
    /\ Len(fetches) = 4

\* C4: when the extraction fetch of a page returns a well-formed empty array,
\* that step ends the run with the no-candidates reason, returns the
\* accumulated records as they were and changes neither them nor seen_ids.
C4_EmptyArrayStops ==
    [][(pc = "extracting" /\ last_payload' = "empty_array") =>
          /\ pc' = "done"
          /\ stop' = "no-candidates"
          /\ returned' = all_venues
          /\ all_venues' = all_venues
          /\ seen_ids' = seen_ids]_vars

\* C4 witness: page 2 or later returned an empty array after records had been
\* accumulated.
C4_Witness ==
    /\ pc = "done"
    /\ last_payload = "empty_array"
    /\ stop = "no-candidates"
    /\ page_number >= 2
    /\ returned # <<>>

\* the progress line of each stop reason
ReasonLine ==
    [r \in {"page-limit-reached", "fetch-failed", "extraction-failed",
            "payload-malformed", "no-candidates", "no-new-venues",
            "llm-config-error"} |->
        CASE r = "page-limit-reached" -> "limit_reached"
          [] r = "fetch-failed" -> "load_failed"
          [] r = "extraction-failed" -> "extract_error"
          [] r = "payload-malformed" -> "parse_failed"
          [] r = "no-candidates" -> "no_venues"
          [] r = "no-new-venues" -> "no_valid"
          [] r = "llm-config-error" -> "llm_error"]

ReasonKinds == {ReasonLine[r] : r \in DOMAIN ReasonLine}

\* the positions of the stop-reason lines in the progress lines
ReasonPositions == {i \in DOMAIN progress : progress[i].k \in ReasonKinds}

NotRecords == {"notjson", "object", "scalar", "array_nonmapping"}

\* C6: a payload that is no JSON, or JSON that is no array of mappings, ends
\* the run by the payload-malformed stop with the accumulated records
\* returned, never by an exception.
C6_MalformedStopsCleanly ==
    last_payload \in NotRecords =>
        /\ pc = "done"
        /\ stop = "payload-malformed"
        /\ returned = all_venues

\* the pair (llm_provider, llm_model) is in the catalog
InCatalog ==
    /\ llm_provider \in DOMAIN LLM_PROVIDERS
    /\ llm_model \in LLM_PROVIDERS[llm_provider]

\* C7: with a provider or model that is not in the catalog the run ends before
\* the loop: no fetch is issued, the loop state is never set up and the
\* returned collection is empty.
C7_UnknownProviderNoFetch ==
    ~InCatalog =>
        /\ fetches = <<>>
        /\ returned = <<>>
        /\ page_number = 0
        /\ pc \in {"called", "done"}
        /\ pc = "done" => stop = "llm-config-error"

\* C7 witness: a run with a known provider and an unknown model has returned.
C7_Witness ==
    /\ llm_provider \in DOMAIN LLM_PROVIDERS
    /\ ~InCatalog
    /\ pc = "done"
    /\ progress # <<>>

\* the credential has a valid shape: trimmed of surrounding whitespace it has
\* at least MinKeyLen characters
ShapeOk(key) ==
    \E i, j \in DOMAIN key :
        /\ ~IsSpace(key[i])
        /\ ~IsSpace(key[j])
        /\ j - i + 1 >= MinKeyLen

\* C8 as claimed: with a credential of invalid shape no run issues a fetch.
C8_InvalidKeyNoFetch == ~ShapeOk(api_key) => fetches = <<>>

\* C8 as amended: with a credential of invalid shape the start-button handler
\* of the app does not call crawl_venues, so a run started from the app issues
\* no fetch.
C8_AppRejectsInvalidKey ==
    (via = "app" /\ ~ShapeOk(api_key)) =>
        /\ pc \in {"idle", "rejected"}
        /\ fetches = <<>>
        /\ progress = <<>>

\* C8 witness: the app rejected a non-empty credential that is too short.
C8_Witness ==
    /\ via = "app"
    /\ pc = "rejected"
    /\ api_key # <<>>

\* C9: create_provider_string returns "<provider>/<model>" for a pair of the
\* catalog; otherwise it raises, naming the unknown provider when the provider
\* is missing and the unknown model else; the catalog stays as it was.
C9_ProviderString ==
    pc = "done" =>
        /\ providers = LLM_PROVIDERS
        /\ cps_result =
             IF llm_provider \notin DOMAIN LLM_PROVIDERS
             THEN Raised("Unknown provider: " \o llm_provider)
             ELSE IF llm_model \notin LLM_PROVIDERS[llm_provider]
             THEN Raised("Unknown model " \o llm_model \o " for provider " \o llm_provider)
             ELSE Returned(llm_provider \o "/" \o llm_model)

\* C9 witness: the call for ("xai", "grok-3") returned "xai/grok-3".
C9_Witness ==
    /\ pc = "done"
    /\ llm_provider = "xai"
    /\ cps_result = Returned("xai/grok-3")

\* C10: validate_api_key returns true exactly when the string, trimmed of
\* surrounding whitespace, has at least 10 characters.
C10_ValidateApiKey ==
    pc = "done" => (vak_result <=> ShapeOk(api_key))

\* C10 witness: a key of 11 characters, the first a space, was accepted: ten
\* characters are left after trimming.
C10_Witness ==
    /\ pc = "done"
    /\ vak_result
    /\ Len(api_key) = MinKeyLen + 1
    /\ api_key[1] = " "

-----------------------------------------------------------------------------
(* The resolver: is_duplicate_venue *)

\* C11: for every candidate whose field values are strings, numbers or null,
\* the identity computation never fails and always produces a string.
C11_IdentityIsAlwaysAString ==
    \A i \in DOMAIN dup_log :
        /\ ~dup_log[i].id.raised
        /\ dup_log[i].id.value.t = "str"

\* the is_duplicate_venue call a step makes, as the log records it
LastCheck == dup_log'[Len(dup_log')]

\* C12 (as stated): the resolver is stateless: a check leaves the seen-identity
\* set unchanged, so the same candidate checked twice gets the same answer.
C12_ResolverIsStateless ==
    [][/\ seen_ids' = seen_ids
       /\ \A i, j \in DOMAIN dup_log' :
             dup_log'[i].venue = dup_log'[j].venue => dup_log'[i].out = dup_log'[j].out]_vars

\* C12 (amended): is_duplicate_venue checks and inserts in one call: it answers
\* True exactly when the identity is already in the set and then leaves the set
\* as it is; otherwise it answers False and the set gains exactly that identity.
\* Nothing is removed, and a candidate checked again is a duplicate.
C12_CheckAndInsert ==
    [][/\ Len(dup_log') = Len(dup_log) + 1
       /\ SubSeq(dup_log', 1, Len(dup_log)) = dup_log
       /\ IF LastCheck.id.raised
          THEN LastCheck.out = "raised" /\ seen_ids' = seen_ids
          ELSE /\ LastCheck.out = (IF LastCheck.id.value \in seen_ids THEN "True" ELSE "False")
               /\ seen_ids' = seen_ids \cup {LastCheck.id.value}
               /\ LastCheck.id.value \in seen_ids'
       /\ \A i \in DOMAIN dup_log :
             dup_log[i].venue = LastCheck.venue /\ ~LastCheck.id.raised
                 => LastCheck.out = "True"]_vars

\* the same candidate checked twice: not a duplicate, then a duplicate
C12_Witness ==
    /\ Len(dup_log) = 2
    /\ dup_log[1].venue = dup_log[2].venue
    /\ dup_log[1].out = "False"
    /\ dup_log[2].out = "True"
    /\ seen_ids = {dup_log[1].id.value}

\* the part of url after its last "/"
FinalSegment(url) ==
    LET slashes == {i \in DOMAIN url : url[i] = "/"}
        from == IF slashes = {} THEN 0
                ELSE CHOOSE i \in slashes : \A j \in slashes : j <= i
    IN  SubSeq(url, from + 1, Len(url))

\* the part of segment before its first "."
BeforeFirstDot(segment) ==
    LET dots == {i \in DOMAIN segment : segment[i] = "."}
        to == CHOOSE i \in dots : \A j \in dots : i <= j
    IN  SubSeq(segment, 1, to - 1)

\* venue carries an image URL that can name it: text, not the placeholder,
\* with a "." in the final segment
UsableImage(venue) ==
    /\ HoldsTruthy(venue, k_image_url)
    /\ Item(venue, k_image_url).t = "str"
    /\ ~Contains(Item(venue, k_image_url).v, PlaceholderImage)
    /\ "." \in Range(FinalSegment(Item(venue, k_image_url).v))

ImageToken(venue) == BeforeFirstDot(FinalSegment(Item(venue, k_image_url).v))

\* venue carries an image URL that is no text
ImageNotText(venue) ==
    HoldsTruthy(venue, k_image_url) /\ Item(venue, k_image_url).t # "str"

\* C13 (as stated): the identity is the listing identifier when present and
\* non-empty; otherwise, when the image URL is present, not the placeholder and
\* has a "." in its final segment, the part of that segment before the first
\* "."; otherwise the composite key.
C13_PriorityChain ==
    \A i \in DOMAIN dup_log :
        LET venue == dup_log[i].venue
        IN  ~ImageNotText(venue) =>
              /\ ~dup_log[i].id.raised
              /\ dup_log[i].id.value =
                   IF HoldsTruthy(venue, k_listing_id) THEN Item(venue, k_listing_id)
                   ELSE IF UsableImage(venue) THEN StrVal(ImageToken(venue))
                   ELSE StrVal(CompositeKey(venue))

\* C13 (amended): as stated, but the image URL names the candidate only when
\* the part before the first "." is not empty; an empty part falls through to
\* the composite key.  A candidate without listing identifier whose image URL
\* is no text has no identity: the computation raises.  Two candidates with
\* the placeholder URL and different composite keys get different identities.
C13_PriorityChainNonEmptyToken ==
    /\ \A i \in DOMAIN dup_log :
          LET venue == dup_log[i].venue
          IN  IF ~HoldsTruthy(venue, k_listing_id) /\ ImageNotText(venue)
              THEN dup_log[i].id.raised
              ELSE /\ ~dup_log[i].id.raised
                   /\ dup_log[i].id.value =
                        IF HoldsTruthy(venue, k_listing_id) THEN Item(venue, k_listing_id)
                        ELSE IF UsableImage(venue) /\ ImageToken(venue) # <<>>
                        THEN StrVal(ImageToken(venue))
                        ELSE StrVal(CompositeKey(venue))
    /\ \A i, j \in DOMAIN dup_log :
          LET a == dup_log[i].venue
              b == dup_log[j].venue
          IN  /\ Get(a, k_image_url) = StrVal(url_placeholder)
              /\ Get(b, k_image_url) = StrVal(url_placeholder)
              /\ ~HoldsTruthy(a, k_listing_id) /\ ~HoldsTruthy(b, k_listing_id)
              /\ Get(a, k_title) # Get(b, k_title)
              => dup_log[i].id # dup_log[j].id

\* one candidate named by its image token, one whose image URL has an empty
\* token and falls through to the composite key
C13_Witness ==
    /\ Len(dup_log) = 2
    /\ Get(dup_log[1].venue, k_image_url) = StrVal(url_token)
    /\ dup_log[1].id = Returned(StrVal(<<"7">>))
    /\ Get(dup_log[2].venue, k_image_url) = StrVal(url_no_token)
    /\ dup_log[2].id = Returned(StrVal(CompositeKey(dup_log[2].venue)))

CompositeFields == {k_title, k_brand, k_model, k_year, k_km}

\* the text of a value without whitespace, in lower case
Squash(val) == Lower(SelectSeq(Format(val), LAMBDA c : ~IsSpace(c)))

\* a and b differ only in whitespace or letter case inside the composite fields
SameUpToWhitespaceAndCase(a, b) ==
    /\ Len(a) = Len(b)
    /\ \A n \in DOMAIN a :
          /\ a[n].k = b[n].k
          /\ IF a[n].k \in CompositeFields
             THEN a[n].v.t = b[n].v.t /\ Squash(a[n].v) = Squash(b[n].v)
             ELSE a[n].v = b[n].v

\* venue has neither a listing identifier nor an image URL to name it
CompositeOnly(venue) ==
    ~HoldsTruthy(venue, k_listing_id) /\ ~UsableImage(venue) /\ ~ImageNotText(venue)

\* C14: two candidates with no listing identifier and no usable image URL that
\* differ only in whitespace (spaces, tabs, newlines) or letter case inside
\* title, brand, model, year or km receive the same composite identity, so of
\* the two, checked in order against one set, only the first is accepted.
C14_WhitespaceAndCaseFolded ==
    \A i, j \in DOMAIN dup_log :
        /\ i < j
        /\ CompositeOnly(dup_log[i].venue)
        /\ CompositeOnly(dup_log[j].venue)
        /\ SameUpToWhitespaceAndCase(dup_log[i].venue, dup_log[j].venue)
        => /\ dup_log[i].id = dup_log[j].id
           /\ dup_log[j].out = "True"

-----------------------------------------------------------------------------
(* generate_flexible_selector *)

\* raw holds no ".class" token and no "[class" attribute expression
NoClassToken(raw) ==
    /\ ~\E i \in 1..(Len(raw) - 1) : raw[i] = "." /\ raw[i + 1] \in ClassChars
    /\ ~Contains(raw, AttrOpen)

\* raw is empty or made of white space only
WhitespaceOnly(raw) == \A i \in DOMAIN raw : raw[i] \in Spaces

\* C15 (as stated): for every input string that contains no class token,
\* generate_flexible_selector returns the input string unchanged.
C15_NoClassTokenUnchanged ==
    pc = "done" /\ NoClassToken(raw_selector) => gfs_result = raw_selector

\* C15 (amended): an input without class token is returned unchanged unless it
\* is made of white space only; for such an input the result is the empty string.
C15_NoClassTokenUnchangedOrBlank ==
    pc = "done" /\ NoClassToken(raw_selector) =>
        gfs_result = IF WhitespaceOnly(raw_selector) THEN <<>> ELSE raw_selector

\* a selector of tag names and combinators came back as it was
C15_Witness ==
    /\ pc = "done"
    /\ NoClassToken(raw_selector)
    /\ ~WhitespaceOnly(raw_selector)
    /\ Len(raw_selector) > 1
    /\ gfs_result = raw_selector

\* the rendering of fragments for keywords given in order
Rendering(kws) == Join([i \in DOMAIN kws |-> Fragment(kws[i])], <<",", " ">>)

kw_container == <<"c", "o", "n", "t", "a", "i", "n", "e", "r">>
kw_item == <<"i", "t", "e", "m">>
kw_product == <<"p", "r", "o", "d", "u", "c", "t">>
kw_prd == <<"p", "r", "d">>
kw_product_card == <<"p", "r", "o", "d", "u", "c", "t", "-", "c", "a", "r", "d">>

MatchedPrimaries(raw) ==
    {primary \in DOMAIN KEYWORD_SYNONYMS :
        \E keyword \in AllKeywordsRaw(raw) : Lower(keyword) = primary}

\* the members of the synonym lists of the primary keywords raw matches
MatchedSynonyms(raw) ==
    UNION {Range(KEYWORD_SYNONYMS[primary]) : primary \in MatchedPrimaries(raw)}

\* the fragments of an output, read back from its text: the parts between
\* the commas, each but the first behind one space
FragmentsOf(out) ==
    LET parts == Split(out, ",")
    IN  [i \in DOMAIN parts |-> IF i = 1 THEN parts[i] ELSE Tail(parts[i])]

kw_ListingCell == <<"L", "i", "s", "t", "i", "n", "g", "C", "e", "l", "l">>
kw_PropertyCard == <<"P", "r", "o", "p", "e", "r", "t", "y", "C", "a", "r", "d">>
kw_listing_item == <<"l", "i", "s", "t", "i", "n", "g", "-", "i", "t", "e", "m">>

-----------------------------------------------------------------------------
(* The run: order of fetches and of progress lines, the seen-identity set *)

\* the fetch that position i of a run's fetches holds when every page is
\* rendered first and extracted next, from page 1 on
FetchInOrder(i) ==
    IF i % 2 = 1 THEN Fetch("render", (i + 1) \div 2) ELSE Fetch("extract", i \div 2)

\* C18: the fetches of a run are issued one at a time in the order render(1),
\* extract(1), render(2), extract(2), ...: the extraction fetch of page n only
\* after the render-only fetch of page n succeeded (a failed one stops the run
\* with no extraction fetch for the page), the render-only fetch of page n + 1
\* only after page n accepted a record; pages start at 1 and go up by 1.
C18_FetchOrder ==
    /\ \A i \in DOMAIN fetches : fetches[i] = FetchInOrder(i)
    /\ pc = "rendering" => Len(fetches) = 2 * page_number - 1
    /\ pc = "extracting" => Len(fetches) = 2 * page_number
    /\ pc \in {"filtering", "crashed"} => Len(fetches) = 2 * page_number
    /\ pc = "loop" => Len(fetches) = 2 * (page_number - 1)
    /\ stop = "fetch-failed" =>
          /\ Len(fetches) = 2 * page_number - 1
          /\ fetches[Len(fetches)] = Fetch("render", page_number)
    /\ \A i \in DOMAIN fetches :
          fetches[i].kind = "render" /\ fetches[i].page > 1 =>
              \E j \in DOMAIN progress :
                  /\ progress[j].k = "extracted"
                  /\ progress[j].a = fetches[i].page - 1
                  /\ progress[j].b >= 1

\* a run that fetched two pages and then failed to render the third
C18_Witness ==
    /\ stop = "fetch-failed"
    /\ fetches = <<Fetch("render", 1), Fetch("extract", 1), Fetch("render", 2),
                   Fetch("extract", 2), Fetch("render", 3)>>

\* the enumerated steps of the per-page algorithm
Steps ==
    <<"page-limit check", "URL build", "render-only fetch", "settle delay",
      "extraction fetch", "extraction-failure check", "payload parse", "empty check",
      "candidate filtering", "accept/advance">>

\* the kinds of line that name the page they are about
PageKinds ==
    {"processing", "load_failed", "extract_error", "parse_failed", "no_venues",
     "no_valid", "extracted"}

\* the positions of the lines about page n
PageLines(n) == {i \in DOMAIN progress : progress[i].k \in PageKinds /\ progress[i].a = n}

\* C19 (as stated): in every page iteration each enumerated step emits exactly
\* one progress line, and the lines are in the order of the steps.
C19_OneLinePerStep ==
    \A n \in 1..(page_number - 1) :
        /\ Cardinality(PageLines(n)) = Len(Steps)
        /\ \A i, j \in PageLines(n) : i < j => progress[i].k # progress[j].k

\* the lines that follow those of the prologue and of the pages closed so far
OpenPageLines == SubSeq(progress, 2 * page_number + 2, Len(progress))

\* C19 (amended): a page iteration emits two lines and no more: the line
\* "Processing page n" when the URL is built, and the line of the step that
\* ends the iteration: "Extracted k venues" on accept/advance, or the line of
\* the break.  The page-limit check emits a line only when it stops the run;
\* the fetches, the settle delay, the parse, the empty check and the filtering
\* emit none when they pass.  The lines are in the order of the steps: three
\* lines of the prologue, two lines for each page closed, the lines of the
\* page that is open or that stopped the run, the summary.
C19_TwoLinesPerPage ==
    /\ pc \in {"idle", "called", "rejected"} => progress = <<>>
    /\ stop = "llm-config-error" => Len(progress) = 1 /\ progress[1].k = "llm_error"
    /\ pc \notin {"idle", "called", "rejected"} /\ stop # "llm-config-error" =>
          /\ Len(progress) >= 2 * page_number + 1
          /\ progress[1].k = "using_llm"
          /\ progress[2].k = "starting"
          /\ progress[3].k \in {"limit_set", "no_limit"}
          /\ \A n \in 1..(page_number - 1) :
                /\ PageLines(n) = {2 * n + 2, 2 * n + 3}
                /\ progress[2 * n + 2].k = "processing"
                /\ progress[2 * n + 3].k = "extracted"
                /\ progress[2 * n + 3].b >= 1
          /\ LET open == OpenPageLines
             IN  CASE pc = "loop" -> open = <<>>
                   [] pc \in {"rendering", "extracting", "filtering", "crashed"} ->
                        open = <<Line("processing", "", page_number, 0)>>
                   [] pc = "done" /\ stop = "page-limit-reached" ->
                        /\ Len(open) = 2
                        /\ open[1].k = "limit_reached"
                        /\ open[2].k = "complete"
                   [] pc = "done" /\ stop # "page-limit-reached" ->
                        /\ Len(open) = 3
                        /\ open[1] = Line("processing", "", page_number, 0)
                        /\ open[2] = Line(ReasonLine[stop], "", page_number, 0)
                        /\ open[3].k = "complete"

\* a run that closed two pages and stopped on the third, which had nothing new
C19_Witness ==
    /\ pc = "done"
    /\ stop = "no-new-venues"
    /\ page_number = 3
    /\ Len(progress) = 10

\* the records accepted so far in the run: accumulated or on the current page
AcceptedSoFar == Range(all_venues) \cup Range(page_venues)

\* the seen-identity set holds the str() of the accepted records and no more,
\* and no two accumulated records have one identity
SeenIsAccepted ==
    /\ seen_ids = {StrOfDict(rec) : rec \in AcceptedSoFar}
    /\ Cardinality({StrOfDict(rec) : rec \in Range(all_venues)}) = Len(all_venues)

\* C20: at every point of a run the seen-identity set is exactly the set of
\* identities of the records accepted so far (accumulated plus current page):
\* an identity is inserted if and only if its candidate is accepted in the same
\* step, none is ever removed, and a complete candidate is rejected as
\* duplicate if and only if its identity is already a member.
C20_SeenSetIsAcceptedSet ==
    /\ []SeenIsAccepted
    /\ [][/\ seen_ids \subseteq seen_ids'
          /\ seen_ids' # seen_ids <=>
                /\ pc = "filtering"
                /\ Len(page_venues') = Len(page_venues) + 1
          /\ pc = "filtering" =>
                \A e \in Elements :
                   e.isdict /\ Candidate(e) =>
                      LET venue == StripError(e.d)
                          complete == \A key \in Range(keys_list) : HoldsTruthy(venue, key)
                          member == StrOfDict(venue) \in seen_ids
                      IN  /\ page_venues' = IF complete /\ ~member
                                            THEN Append(page_venues, venue)
                                            ELSE page_venues
                          /\ seen_ids' = IF complete /\ ~member
                                         THEN seen_ids \cup {StrOfDict(venue)}
                                         ELSE seen_ids]_vars

\* two pages closed with one record each, and a third page that had nothing new
C20_Witness ==
    /\ pc = "done"
    /\ stop = "no-new-venues"
    /\ page_number = 3
    /\ Len(all_venues) = 2
    /\ Cardinality(seen_ids) = 2
    /\ seen_ids = {StrOfDict(all_venues[1]), StrOfDict(all_venues[2])}

-----------------------------------------------------------------------------
(* The run: the error marker, termination, the page limit *)

\* rec holds the marker error with the boolean value b
HasErrorMarker(rec, b) == HasKey(rec, k_error) /\ Item(rec, k_error) = BoolVal(b)

\* C21: an error marker whose value is boolean false is removed before the
\* completeness and the duplicate checks: no accepted or returned record holds
\* error = false, a candidate with the marker is treated as the candidate
\* without it, and a candidate with error = true is neither stripped nor
\* rejected on that ground.
C21_ErrorFalseStripped ==
    /\ [](\A rec \in Accepted : ~HasErrorMarker(rec, FALSE))
    /\ [][pc = "filtering" =>
             \A e \in Elements :
                /\ e.isdict /\ HasErrorMarker(e.d, FALSE) /\ Candidate(e) =>
                      Candidate(DictElem(Pop(e.d, k_error)))
                /\ e.isdict /\ HasErrorMarker(e.d, TRUE) /\ Candidate(e) =>
                      page_venues' =
                         IF /\ \A key \in Range(keys_list) : HoldsTruthy(e.d, key)
                            /\ StrOfDict(e.d) \notin seen_ids
                         THEN Append(page_venues, e.d)
                         ELSE page_venues]_vars

\* a run returned a record that kept error = true next to the record that
\* the candidates with and without error = false both stand for
C21_Witness ==
    /\ pc = "done"
    /\ \E rec \in Range(returned) : HasErrorMarker(rec, TRUE)
    /\ <<KV(k_title, StrVal(<<"x">>)), KV(k_price, StrVal(<<"1">>))>> \in Range(returned)

\* the run is over: it returned, an exception left it, or it never began
Terminated == pc \in {"done", "crashed", "rejected"}

\* a == b for two dicts: the same keys with the same values, in any order
SameRecord(a, b) ==
    /\ Len(a) = Len(b)
    /\ \A i \in DOMAIN a : HasKey(b, a[i].k) /\ Item(b, a[i].k) = a[i].v

\* the complete records the site can return, the error = false marker aside
CompleteRecords ==
    {rec \in {IF HasErrorMarker(e.d, FALSE) THEN Pop(e.d, k_error) ELSE e.d :
                 e \in {x \in Elements : x.isdict}} :
        \A key \in Range(ParseKeys(required_keys_str)) : HoldsTruthy(rec, key)}

\* how many of them are distinct: one for each class of equal records
DistinctCompleteRecords ==
    Cardinality({{b \in CompleteRecords : SameRecord(a, b)} : a \in CompleteRecords})

\* the pages the run has visited: those it issued a render-only fetch for
PagesVisited == {fetches[i].page : i \in {j \in DOMAIN fetches : fetches[j].kind = "render"}}

\* C22: with every fetch and delay returning and no page limit in force, the
\* run terminates: each page that leads to a next one has enlarged the
\* seen-identity set, so at most as many pages are visited as there are distinct
\* complete records, plus one.
C22_TerminatesWithoutLimit ==
    /\ [](~LimitInForce =>
             /\ Cardinality(PagesVisited) <= DistinctCompleteRecords + 1
             /\ pc \in {"loop", "rendering", "extracting", "filtering"} =>
                   Cardinality(seen_ids) >= page_number - 1)
    /\ ~LimitInForce => <>Terminated

\* no page limit is asked for: the box is not ticked, or max_pages is None or 0
LimitOff == ~use_page_limit \/ max_pages.none \/ max_pages.n = 0

\* C23: the page-limit stop is in force only when use_page_limit is true and
\* max_pages is a non-zero number: with use_page_limit true and max_pages None
\* or 0, and with use_page_limit false whatever max_pages is, the stop never
\* fires, the run announces "no page limit" and goes on until another stop
\* reason occurs.
C23_LimitOnlyWhenAsked ==
    LimitOff =>
        /\ stop # "page-limit-reached"
        /\ \A i \in DOMAIN progress : progress[i].k \notin {"limit_set", "limit_reached"}
        /\ Len(progress) >= 3 => progress[3].k = "no_limit"
        /\ pc = "done" =>
              stop \in {"llm-config-error", "fetch-failed", "extraction-failed",
                        "payload-malformed", "no-candidates", "no-new-venues"}

\* a run with the box ticked and max_pages 0 went past page 1 and stopped for
\* want of new records
C23_Witness ==
    /\ use_page_limit
    /\ max_pages = IntArg(0)
    /\ pc = "done"
    /\ stop = "no-new-venues"
    /\ page_number >= 2
    /\ progress[3].k = "no_limit"

=============================================================================
